---- MODULE Spec2Model ----
\* Product identity and cross-collection consistency of the admin portal:
\* ProductService (getNextProductId, createProduct, updateProduct,
\* deleteProduct) running against the products, categories and
\* subcategories collections of the document store.
EXTENDS Integers, Sequences, FiniteSets, TLC

\* ---------------------------------------------------------------------
\* Bounds of the model
\* ---------------------------------------------------------------------
NumProcs == 2
\* calls issued in a serial run, in a concurrent run, and in a run where
\* writes may fail
MaxOps == 4
MaxConcurrentOps == 3
MaxFaultyOps == 3
MaxSeededOps == 3
MaxRouteOps == 3
MaxRaceOps == 3
NumListed == 11
MaxListDeletes == 2
MaxFiles == 4

Procs == 1..NumProcs

\* The parent documents present in the store: subcategory S1 belongs to
\* category C1 and S2 to C2.
CategoryIds == {"C1", "C2"}
SubcategoryIds == {"S1", "S2"}
OwningCategory == [s \in SubcategoryIds |-> IF s = "S1" THEN "C1" ELSE "C2"]

\* Image URL lists returned by the media host, and lists an update may set
ImageUrlLists == {<<"u1", "u2">>}
UpdateImageUrlLists == {<<"u1">>}

\* A timestamp and a product number a caller of updateProduct may supply
CallerTimestamp == 0
OtherProductNum == 7

VARIABLES products, categories, subcategories, pc, local, now, issued,
          last, prev, returned, deleteCalled, ui

vars == <<products, categories, subcategories, pc, local, now, issued,
          last, prev, returned, deleteCalled, ui>>

\* Everything but the state of the browser page (ui)
backend == <<products, categories, subcategories, pc, local, now, issued,
             last, prev, returned, deleteCalled>>

store == <<products, categories, subcategories>>

\* ---------------------------------------------------------------------
\* Strings: an identifier is the sequence of its characters
\* ---------------------------------------------------------------------
DigitChars == <<"0", "1", "2", "3", "4", "5", "6", "7", "8", "9">>

DigitVal(c) == (CHOOSE i \in 1..10 : DigitChars[i] = c) - 1

ProdPrefix == <<"p", "r", "o", "d", "_">>

\* Number.prototype.toString(): decimal digits, no leading zeros
RECURSIVE toString(_)
toString(n) ==
    IF n < 10 THEN <<DigitChars[n + 1]>>
    ELSE toString(n \div 10) \o <<DigitChars[(n % 10) + 1]>>

\* String.prototype.padStart(targetLength, padString) for a one-character pad
RECURSIVE padStart(_, _, _)
padStart(s, targetLength, ch) ==
    IF Len(s) >= targetLength THEN s
    ELSE padStart(<<ch>> \o s, targetLength, ch)

\* `prod_${nextNum.toString().padStart(4, '0')}`
\* variant: a suffix cut to its last four digits
formatProductIdTruncating(nextNum) ==
    LET s == padStart(toString(nextNum), 4, "0")
    IN ProdPrefix \o SubSeq(s, Len(s) - 3, Len(s))

formatProductId(nextNum) == ProdPrefix \o padStart(toString(nextNum), 4, "0")

\* { $match: { "_id": { $regex: "^prod_" } } }
matchProdRegex(id) == Len(id) >= 5 /\ SubSeq(id, 1, 5) = ProdPrefix

\* { $substr: ["$_id", 5, -1] }: the rest of the string from offset 5
substrFrom5(id) == SubSeq(id, 6, Len(id))

\* $toInt of a string of decimal digits
RECURSIVE toInt(_)
toInt(s) ==
    IF Len(s) = 0 THEN 0
    ELSE 10 * toInt(SubSeq(s, 1, Len(s) - 1)) + DigitVal(s[Len(s)])

\* variant: an ascending sort, which yields the smallest numeric part
SetMin(S) == CHOOSE m \in S : \A x \in S : m <= x

SetMax(S) == CHOOSE m \in S : \A x \in S : x <= m

\* The aggregation pipeline: numeric_part of every matching _id, sorted
\* descending, limit 1; the result is empty when nothing matches.
numericParts(coll) ==
    {toInt(substrFrom5(d._id)) : d \in {e \in coll : matchProdRegex(e._id)}}

\* variant: numbering that starts from 0 when the collection is empty
nextNumOfZeroBased(coll) ==
    IF numericParts(coll) = {} THEN 0 ELSE SetMax(numericParts(coll)) + 1

nextNumOf(coll) ==
    IF numericParts(coll) = {} THEN 1 ELSE SetMax(numericParts(coll)) + 1

getNextProductId(coll) == formatProductId(nextNumOf(coll))

\* ---------------------------------------------------------------------
\* Document store operations
\* ---------------------------------------------------------------------
\* findOne({ _id }): the matching document, or null (the empty sequence)
getProductById(coll, productId) ==
    IF \E d \in coll : d._id = productId
    THEN <<CHOOSE d \in coll : d._id = productId>>
    ELSE <<>>

\* variant: an insert that never reports a duplicate key
DuplicateKeyIgnored(coll, doc) == FALSE

\* insertOne rejects a document whose _id is already in the collection
DuplicateKey(coll, doc) == \E d \in coll : d._id = doc._id

\* deleteOne({ _id })
deleteOne(coll, productId) == {d \in coll : d._id # productId}

\* The product document built by createProduct
newProduct(productId, input, t) ==
    [_id            |-> productId,
     product_id     |-> productId,
     image_urls     |-> input.image_urls,
     image_count    |-> Len(input.image_urls),
     subcategory_id |-> input.subcategory_id,
     category_id    |-> input.category_id,
     status         |-> "active",
     created_at     |-> t,
     updated_at     |-> t]

\* { $push: { product_ids }, $inc: { product_count: 1 }, $set: { updated_at } }
\* variant: a write of the whole document in which the last writer wins
pushIncLastWriteWins(doc, productId, t) ==
    [product_ids   |-> <<productId>>,
     product_count |-> 1,
     updated_at    |-> t]

pushInc(doc, productId, t) ==
    [product_ids   |-> Append(doc.product_ids, productId),
     product_count |-> doc.product_count + 1,
     updated_at    |-> t]

\* variant: a pull that leaves product_count as it is
pullWithoutDecrement(doc, productId, t) ==
    [product_ids   |-> SelectSeq(doc.product_ids, LAMBDA x : x # productId),
     product_count |-> doc.product_count,
     updated_at    |-> t]

\* { $pull: { product_ids }, $inc: { product_count: -1 }, $set: { updated_at } }
\* $pull removes every element equal to productId
pullInc(doc, productId, t) ==
    [product_ids   |-> SelectSeq(doc.product_ids, LAMBDA x : x # productId),
     product_count |-> doc.product_count - 1,
     updated_at    |-> t]

\* { $set: { ...updateData, updated_at: new Date() } }: the later key wins
Field(updateData, f, old) == IF f \in DOMAIN updateData THEN updateData[f] ELSE old

\* variant: { $set: { updated_at: new Date(), ...updateData } }
setFieldsCallerLast(doc, updateData, t) ==
    [_id            |-> doc._id,
     product_id     |-> Field(updateData, "product_id", doc.product_id),
     image_urls     |-> Field(updateData, "image_urls", doc.image_urls),
     image_count    |-> Field(updateData, "image_count", doc.image_count),
     subcategory_id |-> Field(updateData, "subcategory_id", doc.subcategory_id),
     category_id    |-> Field(updateData, "category_id", doc.category_id),
     status         |-> Field(updateData, "status", doc.status),
     created_at     |-> Field(updateData, "created_at", doc.created_at),
     updated_at     |-> Field(updateData, "updated_at", t)]

setFields(doc, updateData, t) ==
    [_id            |-> doc._id,
     product_id     |-> Field(updateData, "product_id", doc.product_id),
     image_urls     |-> Field(updateData, "image_urls", doc.image_urls),
     image_count    |-> Field(updateData, "image_count", doc.image_count),
     subcategory_id |-> Field(updateData, "subcategory_id", doc.subcategory_id),
     category_id    |-> Field(updateData, "category_id", doc.category_id),
     status         |-> Field(updateData, "status", doc.status),
     created_at     |-> Field(updateData, "created_at", doc.created_at),
     updated_at     |-> t]

\* ---------------------------------------------------------------------
\* Inputs
\* ---------------------------------------------------------------------
\* ProductFormData as createProduct reads it, with the uploaded image URLs;
\* the caller passes a subcategory of the category
CreateInputs ==
    {[category_id |-> OwningCategory[s], subcategory_id |-> s, image_urls |-> u] :
        s \in SubcategoryIds, u \in ImageUrlLists}

\* Partial<Product> values passed to updateProduct: those that name another
\* parent, and with them those that set images, identity and timestamps
ParentUpdateInputs ==
    {[category_id |-> c] : c \in CategoryIds}
    \cup {[subcategory_id |-> s] : s \in SubcategoryIds}

UpdateInputs ==
    ParentUpdateInputs
    \cup {[image_urls |-> u] : u \in UpdateImageUrlLists}
    \cup {[image_urls |-> u, image_count |-> Len(u)] : u \in UpdateImageUrlLists}
    \cup {[product_id |-> formatProductId(OtherProductNum),
            created_at |-> CallerTimestamp, updated_at |-> CallerTimestamp]}

\* Identifiers a caller may name: those in use and the next free one
TargetIds == {d._id : d \in products} \cup {getNextProductId(products)}

\* ---------------------------------------------------------------------
\* Bookkeeping of calls (history, not program state)
\* ---------------------------------------------------------------------
Occurrences(seq, x) == Cardinality({i \in DOMAIN seq : seq[i] = x})

CountMatchesList(doc) == doc.product_count = Len(doc.product_ids)

\* A product is listed exactly once by the category and by the subcategory
\* it names
ListedOnce(d) ==
    /\ Occurrences(categories[d.category_id].product_ids, d._id) = 1
    /\ Occurrences(subcategories[d.subcategory_id].product_ids, d._id) = 1

\* A parent lists only products that exist and name it
BackReferences(coll, parentOf(_)) ==
    \A x \in DOMAIN coll : \A i \in DOMAIN coll[x].product_ids :
        \E d \in products : d._id = coll[x].product_ids[i] /\ parentOf(d) = x

\* The invariants of the data model: counts equal list lengths, every
\* product is listed exactly once by each of its parents, and the lists
\* hold nothing else
Consistent ==
    /\ \A c \in CategoryIds : CountMatchesList(categories[c])
    /\ \A s \in SubcategoryIds : CountMatchesList(subcategories[s])
    /\ \A d \in products : ListedOnce(d)
    /\ BackReferences(categories, LAMBDA d : d.category_id)
    /\ BackReferences(subcategories, LAMBDA d : d.subcategory_id)

ParentView(coll) ==
    [x \in DOMAIN coll |->
        [product_ids |-> coll[x].product_ids, product_count |-> coll[x].product_count]]

Snap == [products |-> products, cats |-> ParentView(categories),
         subs |-> ParentView(subcategories), consistent |-> Consistent]

EmptyParents(ids) ==
    [x \in ids |-> [product_ids |-> <<>>, product_count |-> 0, updated_at |-> 0]]

NoSnap == [products |-> {}, cats |-> ParentView(EmptyParents(CategoryIds)),
           subs |-> ParentView(EmptyParents(SubcategoryIds)),
           consistent |-> TRUE]

\* The parents before a call, recorded for serially issued calls
Before(serial) == IF serial THEN Snap ELSE NoSnap

NoLocal == [kind |-> "none", id |-> <<>>, category_id |-> "", subcategory_id |-> "",
            image_urls |-> <<>>, product |-> <<>>, upload_id |-> <<>>, pre |-> NoSnap]

\* A finished call: what was called, how it ended (status), the await it
\* ended at (at), and for an update the fields the caller supplied
NoCall == [kind |-> "none", status |-> "none", at |-> "idle", id |-> <<>>,
           category_id |-> "", subcategory_id |-> "", found |-> FALSE, upload_id |-> <<>>,
           fields |-> {}, pre |-> NoSnap]

CallOf(l, status, at, found) ==
    [kind |-> l.kind, status |-> status, at |-> at, id |-> l.id,
     category_id |-> l.category_id, subcategory_id |-> l.subcategory_id,
     found |-> found, upload_id |-> l.upload_id, fields |-> {}, pre |-> l.pre]

\* The call of process p ends: it returns (status "ok") or throws ("error")
Complete(p, l, status, found) ==
    /\ pc' = [pc EXCEPT ![p] = "idle"]
    /\ local' = [local EXCEPT ![p] = NoLocal]
    /\ last' = CallOf(l, status, pc[p], found)
    /\ prev' = last

Idle(p) == pc[p] = "idle"

\* new Date(): the clock reading. The clock advances between calls; calls
\* that overlap run within one reading of it.
Issue ==
    /\ issued' = issued + 1
    /\ now' = IF \A q \in Procs : Idle(q) THEN now + 1 ELSE now

\* A call may start; serially issued calls wait for every running call
MayStart(p, serial) ==
    /\ Idle(p)
    /\ issued < (IF serial THEN MaxOps ELSE MaxConcurrentOps)
    /\ serial => \A q \in Procs : Idle(q)

\* The calls of a run in which writes may fail
FaultyBudget == issued <= MaxFaultyOps

\* ---------------------------------------------------------------------
\* Init
\* ---------------------------------------------------------------------
\* No page is open
NoUi == [page |-> "none"]

Init ==
    /\ ui = NoUi
    /\ products = {}
    /\ categories = EmptyParents(CategoryIds)
    /\ subcategories = EmptyParents(SubcategoryIds)
    /\ pc = [p \in Procs |-> "idle"]
    /\ local = [p \in Procs |-> NoLocal]
    /\ now = 0
    /\ issued = 0
    /\ last = NoCall
    /\ prev = NoCall
    /\ returned = <<>>
    /\ deleteCalled = FALSE

\* ---------------------------------------------------------------------
\* createProduct
\* ---------------------------------------------------------------------
\* Call and the first await: getNextProductId scans the products collection
\* variant: allocation that also counts the identifiers other calls hold
StartCreateReserving(p, input, serial) ==
    /\ MayStart(p, serial)
    /\ Issue
    /\ pc' = [pc EXCEPT ![p] = "c_insert"]
    /\ LET held == {newProduct(local[q].id, local[q], 0) :
                        q \in {r \in Procs : pc[r] = "c_insert"}}
       IN local' = [local EXCEPT ![p] =
            [kind |-> "create", id |-> getNextProductId(products \cup held),
             category_id |-> input.category_id,
             subcategory_id |-> input.subcategory_id,
             image_urls |-> input.image_urls, product |-> <<>>, upload_id |-> <<>>,
             pre |-> Before(serial)]]
    /\ UNCHANGED <<products, categories, subcategories, last, prev, returned, deleteCalled>>
    /\ UNCHANGED ui

StartCreate(p, input, serial) ==
    /\ MayStart(p, serial)
    /\ Issue
    /\ pc' = [pc EXCEPT ![p] = "c_insert"]
    /\ local' = [local EXCEPT ![p] =
            [kind |-> "create", id |-> getNextProductId(products),
             category_id |-> input.category_id,
             subcategory_id |-> input.subcategory_id,
             image_urls |-> input.image_urls, product |-> <<>>, upload_id |-> <<>>,
             pre |-> Before(serial)]]
    /\ UNCHANGED <<products, categories, subcategories, last, prev, returned, deleteCalled>>
    /\ UNCHANGED ui

\* variant: a create that updates the category before it inserts
CreateInsertAfterCategory(p) ==
    /\ pc[p] = "c_insert"
    /\ categories' = [categories EXCEPT ![local[p].category_id] =
                          pushInc(@, local[p].id, now)]
    /\ LET doc == newProduct(local[p].id, local[p], now) IN
       IF DuplicateKey(products, doc)
       THEN /\ Complete(p, local[p], "error", FALSE)
            /\ UNCHANGED products
       ELSE /\ products' = products \cup {doc}
            /\ pc' = [pc EXCEPT ![p] = "c_category"]
            /\ UNCHANGED <<local, last, prev>>
    /\ UNCHANGED <<subcategories, now, issued, returned, deleteCalled>>
    /\ UNCHANGED ui

\* insertOne({ _id: productId, ...product }); a duplicate key throws
CreateInsert(p) ==
    /\ pc[p] = "c_insert"
    /\ LET doc == newProduct(local[p].id, local[p], now) IN
       IF DuplicateKey(products, doc)
       THEN /\ Complete(p, local[p], "error", FALSE)
            /\ UNCHANGED products
       ELSE /\ products' = products \cup {doc}
            /\ pc' = [pc EXCEPT ![p] = "c_category"]
            /\ UNCHANGED <<local, last, prev>>
    /\ UNCHANGED <<categories, subcategories, now, issued, returned, deleteCalled>>
    /\ UNCHANGED ui

\* categories.updateOne({ _id: category_id }, { $push, $inc, $set })
CreateCategory(p) ==
    /\ pc[p] = "c_category"
    /\ categories' = [categories EXCEPT ![local[p].category_id] =
                          pushInc(@, local[p].id, now)]
    /\ pc' = [pc EXCEPT ![p] = "c_subcategory"]
    /\ UNCHANGED <<products, subcategories, local, now, issued, last, prev, returned, deleteCalled>>
    /\ UNCHANGED ui

\* subcategories.updateOne({ _id: subcategory_id }, ...) and the return
CreateSubcategory(p) ==
    /\ pc[p] = "c_subcategory"
    /\ subcategories' = [subcategories EXCEPT ![local[p].subcategory_id] =
                             pushInc(@, local[p].id, now)]
    /\ returned' = Append(returned, local[p].id)
    /\ Complete(p, local[p], "ok", FALSE)
    /\ UNCHANGED <<products, categories, now, issued, deleteCalled>>
    /\ UNCHANGED ui

\* ---------------------------------------------------------------------
\* updateProduct: one updateOne on the products collection
\* ---------------------------------------------------------------------
\* variant: an update that moves the product to the category it now names
UpdateProductMigrating(p, productId, updateData, serial) ==
    /\ MayStart(p, serial)
    /\ Issue
    /\ products' = {IF d._id = productId THEN setFields(d, updateData, now') ELSE d :
                        d \in products}
    /\ LET found == getProductById(products, productId) IN
       categories' =
           IF found # <<>> /\ "category_id" \in DOMAIN updateData
           THEN [c \in CategoryIds |->
                    IF c = updateData.category_id
                    THEN pushInc(categories[c], productId, now')
                    ELSE IF c = found[1].category_id
                    THEN pullInc(categories[c], productId, now')
                    ELSE categories[c]]
           ELSE categories
    /\ last' = [kind |-> "update", status |-> "ok", at |-> "idle", id |-> productId,
                category_id |-> "", subcategory_id |-> "",
                found |-> getProductById(products, productId) # <<>>, upload_id |-> <<>>,
                fields |-> DOMAIN updateData, pre |-> Before(serial)]
    /\ prev' = last
    /\ UNCHANGED <<subcategories, pc, local, returned, deleteCalled>>
    /\ UNCHANGED ui

UpdateProduct(p, productId, updateData, serial) ==
    /\ MayStart(p, serial)
    /\ Issue
    /\ products' = {IF d._id = productId THEN setFields(d, updateData, now') ELSE d :
                        d \in products}
    /\ last' = [kind |-> "update", status |-> "ok", at |-> "idle", id |-> productId,
                category_id |-> "", subcategory_id |-> "",
                found |-> getProductById(products, productId) # <<>>, upload_id |-> <<>>,
                fields |-> DOMAIN updateData, pre |-> Before(serial)]
    /\ prev' = last
    /\ UNCHANGED <<categories, subcategories, pc, local, returned, deleteCalled>>
    /\ UNCHANGED ui

\* ---------------------------------------------------------------------
\* deleteProduct
\* ---------------------------------------------------------------------
\* variant: no early return for a missing product
deleteNeverReturnsEarly(found) == FALSE

\* if (!product) return;
deleteReturnsEarly(found) == found = <<>>

\* Call and the first await: getProductById, then the early return
StartDelete(p, productId, serial) ==
    /\ MayStart(p, serial)
    /\ Issue
    /\ deleteCalled' = TRUE
    /\ LET found == getProductById(products, productId)
           l == [kind |-> "delete", id |-> productId,
                 category_id |-> IF found = <<>> THEN "" ELSE found[1].category_id,
                 subcategory_id |-> IF found = <<>> THEN "" ELSE found[1].subcategory_id,
                 image_urls |-> <<>>, product |-> found, upload_id |-> <<>>, pre |-> Before(serial)]
       IN IF deleteReturnsEarly(found)
          THEN Complete(p, l, "ok", found # <<>>)
          ELSE /\ pc' = [pc EXCEPT ![p] = "d_delete"]
               /\ local' = [local EXCEPT ![p] = l]
               /\ UNCHANGED <<last, prev>>
    /\ UNCHANGED <<products, categories, subcategories, returned>>
    /\ UNCHANGED ui

\* products.deleteOne({ _id: productId })
DeleteOne(p) ==
    /\ pc[p] = "d_delete"
    /\ products' = deleteOne(products, local[p].id)
    /\ pc' = [pc EXCEPT ![p] = "d_category"]
    /\ UNCHANGED <<categories, subcategories, local, now, issued, last, prev,
                   returned, deleteCalled>>
    /\ UNCHANGED ui

\* categories.updateOne({ _id: product.category_id }, { $pull, $inc, $set });
\* reading a property of null throws a TypeError
DeleteCategory(p) ==
    /\ pc[p] = "d_category"
    /\ IF local[p].product = <<>>
       THEN /\ Complete(p, local[p], "error", FALSE)
            /\ UNCHANGED categories
       ELSE /\ categories' = [categories EXCEPT ![local[p].product[1].category_id] =
                                  pullInc(@, local[p].id, now)]
            /\ pc' = [pc EXCEPT ![p] = "d_subcategory"]
            /\ UNCHANGED <<local, last, prev>>
    /\ UNCHANGED <<products, subcategories, now, issued, returned, deleteCalled>>
    /\ UNCHANGED ui

\* subcategories.updateOne({ _id: product.subcategory_id }, ...) and the return
DeleteSubcategory(p) ==
    /\ pc[p] = "d_subcategory"
    /\ subcategories' = [subcategories EXCEPT ![local[p].product[1].subcategory_id] =
                             pullInc(@, local[p].id, now)]
    /\ Complete(p, local[p], "ok", TRUE)
    /\ UNCHANGED <<products, categories, now, issued, returned, deleteCalled>>
    /\ UNCHANGED ui

\* ---------------------------------------------------------------------
\* Storage failure: a pending write throws, nothing is rolled back
\* ---------------------------------------------------------------------
WriteLabels == {"c_insert", "c_category", "c_subcategory",
                "d_delete", "d_category", "d_subcategory"}

\* variant: a failing delete puts the removed product record back
WriteFailsRestoring(p) ==
    /\ pc[p] \in WriteLabels
    /\ Complete(p, local[p], "error", local[p].product # <<>>)
    /\ products' = IF pc[p] \in {"d_category", "d_subcategory"} /\ local[p].product # <<>>
                   THEN products \cup {local[p].product[1]}
                   ELSE products
    /\ UNCHANGED <<categories, subcategories, now, issued, returned, deleteCalled>>
    /\ UNCHANGED ui

WriteFails(p) ==
    /\ pc[p] \in WriteLabels
    /\ Complete(p, local[p], "error", local[p].product # <<>>)
    /\ UNCHANGED <<products, categories, subcategories, now, issued, returned, deleteCalled>>
    /\ UNCHANGED ui

\* ---------------------------------------------------------------------
\* POST /api/products: validation, identifier, upload, createProduct
\* ---------------------------------------------------------------------
\* A multipart form: the text fields (absent or empty is "") and the entries
\* that may carry image files
ValidPostRequests ==
    {[product_name |-> "n", product_title |-> "t", product_description |-> "d",
      category_id |-> OwningCategory[s], subcategory_id |-> s,
      entries |-> <<[key |-> "images", file |-> TRUE],
                    [key |-> "images", file |-> TRUE]>>] : s \in SubcategoryIds}

CompleteRequest == CHOOSE r \in ValidPostRequests : r.subcategory_id = "S1"

InvalidPostRequests ==
    {[CompleteRequest EXCEPT !.product_name = ""],
     [CompleteRequest EXCEPT !.product_title = ""],
     [CompleteRequest EXCEPT !.product_description = ""],
     [CompleteRequest EXCEPT !.category_id = ""],
     [CompleteRequest EXCEPT !.subcategory_id = ""],
     [CompleteRequest EXCEPT !.entries = <<>>],
     [CompleteRequest EXCEPT !.entries = <<[key |-> "images", file |-> FALSE]>>],
     [CompleteRequest EXCEPT !.entries = <<[key |-> "photo", file |-> TRUE]>>]}

PostRequests == ValidPostRequests \cup InvalidPostRequests

RequiredFields ==
    {"product_name", "product_title", "product_description",
     "category_id", "subcategory_id"}

\* variant: a check of the required fields that leaves out subcategory_id
missingFieldsLax(req) == {f \in RequiredFields \ {"subcategory_id"} : req[f] = ""}

\* !productName || !productTitle || ... : the required fields that are falsy
missingFields(req) == {f \in RequiredFields : req[f] = ""}

\* key.startsWith('images') && value instanceof File
imageFiles(req) == SelectSeq(req.entries, LAMBDA e : e.key = "images" /\ e.file)

\* what the request lacks: required fields first, then the image files
lacking(req) ==
    IF missingFields(req) # {} THEN missingFields(req)
    ELSE IF Len(imageFiles(req)) = 0 THEN {"images"}
    ELSE {}

PostLocal(req, productId, serial) ==
    [kind |-> "post", id |-> productId,
     category_id |-> req.category_id, subcategory_id |-> req.subcategory_id,
     image_urls |-> <<>>, product |-> <<>>, upload_id |-> productId, pre |-> Before(serial)]

\* variant: a handler that inserts the product record before the upload
PostRequestInsertingFirst(p, req, serial) ==
    /\ MayStart(p, serial)
    /\ Issue
    /\ LET l == PostLocal(req, getNextProductId(products), serial) IN
       IF lacking(req) # {}
       THEN /\ pc' = [pc EXCEPT ![p] = "idle"]
            /\ local' = [local EXCEPT ![p] = NoLocal]
            /\ last' = [CallOf([l EXCEPT !.id = <<>>, !.upload_id = <<>>],
                                   "400", "idle", FALSE)
                            EXCEPT !.fields = lacking(req)]
            /\ prev' = last
            /\ UNCHANGED products
       ELSE /\ pc' = [pc EXCEPT ![p] = "p_upload"]
            /\ local' = [local EXCEPT ![p] = l]
            /\ products' = products \cup {newProduct(l.id, l, now')}
            /\ UNCHANGED <<last, prev>>
    /\ UNCHANGED <<categories, subcategories, returned, deleteCalled>>
    /\ UNCHANGED ui

\* The handler up to its first await on the store: a request that lacks a
\* required field or an image file is answered 400; otherwise
\* getNextProductId() gives the identifier the upload is filed under
PostRequest(p, req, serial) ==
    /\ MayStart(p, serial)
    /\ Issue
    /\ LET l == PostLocal(req, getNextProductId(products), serial) IN
       IF lacking(req) # {}
       THEN /\ pc' = [pc EXCEPT ![p] = "idle"]
            /\ local' = [local EXCEPT ![p] = NoLocal]
            /\ last' = [CallOf([l EXCEPT !.id = <<>>, !.upload_id = <<>>],
                                   "400", "idle", FALSE)
                            EXCEPT !.fields = lacking(req)]
            /\ prev' = last
       ELSE /\ pc' = [pc EXCEPT ![p] = "p_upload"]
            /\ local' = [local EXCEPT ![p] = l]
            /\ UNCHANGED <<last, prev>>
    /\ UNCHANGED <<products, categories, subcategories, returned, deleteCalled>>
    /\ UNCHANGED ui

\* await CloudinaryService.uploadMultipleImages(...): it throws, and the
\* catch block answers 500; or it returns the URLs, and createProduct is
\* called and scans the products collection for its own identifier
PostUpload(p) ==
    /\ pc[p] = "p_upload"
    /\ \/ Complete(p, local[p], "500", FALSE)
       \/ \E urls \in ImageUrlLists :
            /\ pc' = [pc EXCEPT ![p] = "c_insert"]
            /\ local' = [local EXCEPT ![p] =
                    [@ EXCEPT !.id = getNextProductId(products), !.image_urls = urls]]
            /\ UNCHANGED <<last, prev>>
    /\ UNCHANGED <<products, categories, subcategories, now, issued, returned, deleteCalled>>
    /\ UNCHANGED ui

\* ---------------------------------------------------------------------
\* ProductForm: the add-product form of the browser page
\* ---------------------------------------------------------------------
\* What a text input may hold: nothing, blanks, or text
TextValues == {"", " ", "n"}

TextFields == {"product_name", "product_title", "product_description"}

\* String.prototype.trim()
trim(s) == IF s = " " THEN "" ELSE s

\* GET /api/subcategories/:categoryId: the subcategories of the category
subcategoriesOf(categoryId) == {s \in SubcategoryIds : OwningCategory[s] = categoryId}

\* useState initial values; fetching holds the category ids whose
\* fetchSubcategories call has not answered yet, sent the request bodies
\* handleSubmit has posted
FormInit ==
    [page |-> "form",
     formData |-> [product_name |-> "", product_title |-> "",
                   product_description |-> "", category_id |-> "",
                   subcategory_id |-> ""],
     subcategories |-> {},
     selectedImages |-> 0,
     fetching |-> {},
     sent |-> <<>>]

InitForm ==
    /\ ui = FormInit
    /\ products = {}
    /\ categories = EmptyParents(CategoryIds)
    /\ subcategories = EmptyParents(SubcategoryIds)
    /\ pc = [p \in Procs |-> "idle"]
    /\ local = [p \in Procs |-> NoLocal]
    /\ now = 0
    /\ issued = 0
    /\ last = NoCall
    /\ prev = NoCall
    /\ returned = <<>>
    /\ deleteCalled = FALSE

\* handleInputChange on one of the text inputs
ChangeText(field, value) ==
    /\ ui' = [ui EXCEPT !.formData[field] = value]
    /\ UNCHANGED backend

\* handleInputChange('category_id', value) and the effect that runs on the
\* change: fetchSubcategories(value) when a category is chosen, else the
\* options and the chosen subcategory are cleared
ChangeCategory(value) ==
    /\ value # ui.formData.category_id
    /\ ui' = IF value # ""
             THEN [ui EXCEPT !.formData.category_id = value,
                             !.fetching = @ \cup {value}]
             ELSE [ui EXCEPT !.formData.category_id = "",
                             !.formData.subcategory_id = "",
                             !.subcategories = {}]
    /\ UNCHANGED backend

\* fetchSubcategories answers: setSubcategories(data.data), or a toast
FetchAnswers(categoryId) ==
    /\ categoryId \in ui.fetching
    /\ \/ ui' = [ui EXCEPT !.fetching = @ \ {categoryId},
                           !.subcategories = subcategoriesOf(categoryId)]
       \/ ui' = [ui EXCEPT !.fetching = @ \ {categoryId}]
    /\ UNCHANGED backend

\* handleInputChange('subcategory_id', value): the select offers the
\* placeholder and the fetched options, and is disabled without a category
ChangeSubcategory(value) ==
    /\ ui.formData.category_id # ""
    /\ value \in ui.subcategories \cup {""}
    /\ ui' = [ui EXCEPT !.formData.subcategory_id = value]
    /\ UNCHANGED backend

\* onImagesChange of the image widget
ChangeImages(n) ==
    /\ ui' = [ui EXCEPT !.selectedImages = n]
    /\ UNCHANGED backend

validateForm ==
    /\ \A f \in TextFields : trim(ui.formData[f]) # ""
    /\ ui.formData.category_id # ""
    /\ ui.formData.subcategory_id # ""
    /\ ui.selectedImages # 0

\* handleSubmit: nothing is sent unless validateForm passes; the form is
\* reset when the answer reports success
Submit ==
    /\ validateForm
    /\ LET body == [category_id |-> ui.formData.category_id,
                    subcategory_id |-> ui.formData.subcategory_id]
       IN \/ ui' = [FormInit EXCEPT !.sent = <<body>>, !.fetching = ui.fetching]
          \/ ui' = [ui EXCEPT !.sent = <<body>>]
    /\ UNCHANGED backend

\* ---------------------------------------------------------------------
\* ProductListPage: search, filters, pagination and delete
\* ---------------------------------------------------------------------
ITEMS_PER_PAGE == 10

\* The products the page has fetched, by position in the fetched list
ListedProduct(i) ==
    [_id |-> i,
     product_name |-> IF i % 2 = 1 THEN <<"A", "b">> ELSE <<"c">>,
     category_id |-> OwningCategory[IF i % 3 = 0 THEN "S2" ELSE "S1"],
     subcategory_id |-> IF i % 3 = 0 THEN "S2" ELSE "S1"]

SearchValues == {<<>>, <<"a">>}

\* String.prototype.toLowerCase() on the letters in use
toLowerCase(s) == [k \in DOMAIN s |-> IF s[k] = "A" THEN "a" ELSE s[k]]

\* String.prototype.includes(searchString)
includes(s, t) ==
    \E k \in 1..(Len(s) + 1) :
        k + Len(t) - 1 <= Len(s) /\ SubSeq(s, k, k + Len(t) - 1) = t

\* Math.ceil(n / d) for n >= 0
ceilDiv(n, d) == (n + d - 1) \div d

ListInit ==
    [page |-> "list",
     products |-> [i \in 1..NumListed |-> ListedProduct(i)],
     search |-> <<>>,
     categoryFilter |-> "all",
     subcategoryFilter |-> "all",
     currentPage |-> 1,
     pending |-> {},
     deletes |-> 0]

InitList ==
    /\ ui = ListInit
    /\ products = {}
    /\ categories = EmptyParents(CategoryIds)
    /\ subcategories = EmptyParents(SubcategoryIds)
    /\ pc = [p \in Procs |-> "idle"]
    /\ local = [p \in Procs |-> NoLocal]
    /\ now = 0
    /\ issued = 0
    /\ last = NoCall
    /\ prev = NoCall
    /\ returned = <<>>
    /\ deleteCalled = FALSE

matchesFilters(u, product) ==
    /\ includes(toLowerCase(product.product_name), toLowerCase(u.search))
    /\ u.categoryFilter = "all" \/ product.category_id = u.categoryFilter
    /\ u.subcategoryFilter = "all" \/ product.subcategory_id = u.subcategoryFilter

filteredProducts(u) == SelectSeq(u.products, LAMBDA product : matchesFilters(u, product))

totalPages(u) == ceilDiv(Len(filteredProducts(u)), ITEMS_PER_PAGE)

\* filteredProducts.slice(startIndex, startIndex + ITEMS_PER_PAGE)
paginatedProducts(u) ==
    LET startIndex == (u.currentPage - 1) * ITEMS_PER_PAGE
        f == filteredProducts(u)
    IN SubSeq(f, startIndex + 1,
              IF startIndex + ITEMS_PER_PAGE < Len(f) THEN startIndex + ITEMS_PER_PAGE
              ELSE Len(f))

\* setSearch(value) and the effect on [search, subcategoryFilter]
ChangeSearch(value) ==
    /\ value # ui.search
    /\ ui' = [ui EXCEPT !.search = value, !.currentPage = 1]
    /\ UNCHANGED backend

handleCategoryChange(value) ==
    /\ ui' = [ui EXCEPT !.categoryFilter = value, !.subcategoryFilter = "all",
                        !.currentPage = 1]
    /\ UNCHANGED backend

\* setSubcategoryFilter(value), one of the options of the chosen category,
\* and the effect on [search, subcategoryFilter]
ChangeSubcategoryFilter(value) ==
    /\ value # ui.subcategoryFilter
    /\ value \in {"all"} \cup subcategoriesOf(ui.categoryFilter)
    /\ ui' = [ui EXCEPT !.subcategoryFilter = value, !.currentPage = 1]
    /\ UNCHANGED backend

goToPage(page) ==
    /\ ui' = IF page >= 1 /\ page <= totalPages(ui)
             THEN [ui EXCEPT !.currentPage = page]
             ELSE ui
    /\ UNCHANGED backend

\* handleDelete up to its await: the click on a displayed row, confirmed;
\* the handler keeps the products of the render it was created in
ClickDelete(productId) ==
    /\ ui.deletes < MaxListDeletes
    /\ \E k \in DOMAIN paginatedProducts(ui) : paginatedProducts(ui)[k]._id = productId
    /\ ui' = [ui EXCEPT !.pending = @ \cup {[productId |-> productId,
                                            products |-> ui.products]},
                        !.deletes = @ + 1]
    /\ UNCHANGED backend

\* the DELETE request answers: res.ok, or not
DeleteAnswers(d) ==
    /\ d \in ui.pending
    /\ \/ ui' = [ui EXCEPT !.pending = @ \ {d},
                           !.products = SelectSeq(d.products,
                                                  LAMBDA p : p._id # d.productId)]
       \/ ui' = [ui EXCEPT !.pending = @ \ {d}]
    /\ UNCHANGED backend

\* ---------------------------------------------------------------------
\* ImageUpload: selected files and their previews
\* ---------------------------------------------------------------------
maxImages == 10

\* useState initial values. A file is the number of its selection order and
\* its preview (data URL) is written as the same number; batches holds, for
\* every handleFileSelect call, its newPreviews array and the files whose
\* FileReader has not fired onload yet
UploadInit ==
    [page |-> "upload",
     selectedImages |-> <<>>,
     previews |-> <<>>,
     batches |-> <<>>,
     nextFile |-> 1]

InitUpload ==
    /\ ui = UploadInit
    /\ products = {}
    /\ categories = EmptyParents(CategoryIds)
    /\ subcategories = EmptyParents(SubcategoryIds)
    /\ pc = [p \in Procs |-> "idle"]
    /\ local = [p \in Procs |-> NoLocal]
    /\ now = 0
    /\ issued = 0
    /\ last = NoCall
    /\ prev = NoCall
    /\ returned = <<>>
    /\ deleteCalled = FALSE

\* handleFileSelect with k valid files: the files join selectedImages, and
\* a reader is started for each, all pushing to one copy of previews
handleFileSelect(k) ==
    /\ ui.nextFile + k - 1 <= MaxFiles
    /\ Len(ui.selectedImages) + k <= maxImages
    /\ LET validFiles == [i \in 1..k |-> ui.nextFile + i - 1] IN
       ui' = [ui EXCEPT !.selectedImages = @ \o validFiles,
                        !.batches = Append(@, [newPreviews |-> ui.previews,
                                               reading |-> {validFiles[i] : i \in 1..k}]),
                        !.nextFile = @ + k]
    /\ UNCHANGED backend

\* reader.onload of one file of one call: newPreviews.push(result);
\* setPreviews([...newPreviews])
ReaderLoads(b, file) ==
    /\ b \in DOMAIN ui.batches
    /\ file \in ui.batches[b].reading
    /\ LET newPreviews == Append(ui.batches[b].newPreviews, file) IN
       ui' = [ui EXCEPT !.batches[b] = [newPreviews |-> newPreviews,
                                        reading |-> @.reading \ {file}],
                        !.previews = newPreviews]
    /\ UNCHANGED backend

\* Array.prototype.filter((_, i) => i !== index)
withoutIndex(s, index) ==
    [i \in 1..(Len(s) - (IF index \in DOMAIN s THEN 1 ELSE 0)) |->
        IF i < index THEN s[i] ELSE s[i + 1]]

\* removeImage(index), from the remove button of a displayed preview
removeImage(index) ==
    /\ index \in DOMAIN ui.previews
    /\ ui' = [ui EXCEPT !.selectedImages = withoutIndex(@, index),
                        !.previews = withoutIndex(@, index)]
    /\ UNCHANGED backend

\* ---------------------------------------------------------------------
\* Specifications
\* ---------------------------------------------------------------------
Steps(p) ==
    \/ CreateInsert(p)
    \/ CreateCategory(p)
    \/ CreateSubcategory(p)
    \/ DeleteOne(p)
    \/ DeleteCategory(p)
    \/ DeleteSubcategory(p)

Calls(p, serial) ==
    \/ \E input \in CreateInputs : StartCreate(p, input, serial)
    \/ \E productId \in TargetIds,
          updateData \in (IF serial THEN UpdateInputs ELSE ParentUpdateInputs) :
           UpdateProduct(p, productId, updateData, serial)
    \/ \E productId \in TargetIds : StartDelete(p, productId, serial)

\* Concurrent callers, every write succeeds
Next == \E p \in Procs : Calls(p, FALSE) \/ Steps(p)

Spec == Init /\ [][Next]_vars

\* Calls issued one at a time, every write succeeds
NextSerial == \E p \in Procs : Calls(p, TRUE) \/ Steps(p)

SpecSerial == Init /\ [][NextSerial]_vars

\* Calls issued one at a time, a pending write may throw
NextFaulty ==
    \E p \in Procs : (Calls(p, TRUE) /\ FaultyBudget') \/ Steps(p) \/ WriteFails(p)

SpecFaulty == Init /\ [][NextFaulty]_vars

\* A store that already holds one product whose numeric suffix is close to
\* the four-digit limit, listed by its category and subcategory
SeedNums == {9998, 9999}

SeedInput == [category_id |-> "C1", subcategory_id |-> "S1", image_urls |-> <<"u1", "u2">>]

InitSeeded ==
    /\ ui = NoUi
    /\ \E n \in SeedNums :
        /\ products = {newProduct(formatProductId(n), SeedInput, 0)}
        /\ categories = [EmptyParents(CategoryIds) EXCEPT
                            !["C1"] = pushInc(@, formatProductId(n), 0)]
        /\ subcategories = [EmptyParents(SubcategoryIds) EXCEPT
                               !["S1"] = pushInc(@, formatProductId(n), 0)]
    /\ pc = [p \in Procs |-> "idle"]
    /\ local = [p \in Procs |-> NoLocal]
    /\ now = 0
    /\ issued = 0
    /\ last = NoCall
    /\ prev = NoCall
    /\ returned = <<>>
    /\ deleteCalled = FALSE

SeededBudget == issued <= MaxSeededOps

\* Calls issued one at a time on the seeded store, every write succeeds
NextSeeded == \E p \in Procs : (Calls(p, TRUE) /\ SeededBudget') \/ Steps(p)

SpecSeeded == InitSeeded /\ [][NextSeeded]_vars

RouteBudget == issued <= MaxRouteOps

\* POST requests and delete calls issued one at a time; an upload may fail
NextRoute ==
    \E p \in Procs :
        \/ (\E req \in PostRequests : PostRequest(p, req, TRUE)) /\ RouteBudget'
        \/ (\E productId \in TargetIds : StartDelete(p, productId, TRUE)) /\ RouteBudget'
        \/ PostUpload(p)
        \/ Steps(p)

SpecRoute == Init /\ [][NextRoute]_vars

RaceBudget == issued <= MaxRaceOps

\* Concurrent create and delete calls, a pending insertOne may throw
NextRace ==
    \E p \in Procs :
        \/ (\E input \in CreateInputs : StartCreate(p, input, FALSE)) /\ RaceBudget'
        \/ (\E productId \in TargetIds : StartDelete(p, productId, FALSE)) /\ RaceBudget'
        \/ Steps(p)
        \/ (pc[p] = "c_insert" /\ WriteFails(p))

SpecRace == Init /\ [][NextRace]_vars

\* Concurrent POST requests and delete calls; an upload may fail
NextRouteRace ==
    \E p \in Procs :
        \/ (\E req \in PostRequests : PostRequest(p, req, FALSE)) /\ RouteBudget'
        \/ (\E productId \in TargetIds : StartDelete(p, productId, FALSE)) /\ RouteBudget'
        \/ PostUpload(p)
        \/ Steps(p)

SpecRouteRace == Init /\ [][NextRouteRace]_vars

\* The user at the add-product form
NextForm ==
    \/ \E field \in TextFields, value \in TextValues : ChangeText(field, value)
    \/ \E value \in CategoryIds \cup {""} : ChangeCategory(value)
    \/ \E categoryId \in CategoryIds : FetchAnswers(categoryId)
    \/ \E value \in SubcategoryIds \cup {""} : ChangeSubcategory(value)
    \/ \E n \in 0..1 : ChangeImages(n)
    \/ Submit

SpecForm == InitForm /\ [][NextForm]_vars

\* The user at the product list page
NextList ==
    \/ \E value \in SearchValues : ChangeSearch(value)
    \/ \E value \in CategoryIds \cup {"all"} : handleCategoryChange(value)
    \/ \E value \in SubcategoryIds \cup {"all"} : ChangeSubcategoryFilter(value)
    \/ \E page \in 0..3 : goToPage(page)
    \/ \E productId \in 1..NumListed : ClickDelete(productId)
    \/ \E d \in ui.pending : DeleteAnswers(d)

SpecList == InitList /\ [][NextList]_vars

\* The user at the image upload widget, and the file readers
NextUpload ==
    \/ \E k \in 1..2 : handleFileSelect(k)
    \/ \E b \in 1..MaxFiles, file \in 1..MaxFiles : ReaderLoads(b, file)
    \/ \E index \in 1..MaxFiles : removeImage(index)

SpecUpload == InitUpload /\ [][NextUpload]_vars

\* ---------------------------------------------------------------------
\* Properties
\* ---------------------------------------------------------------------
Quiescent == \A p \in Procs : Idle(p)

Suffix(id) == toInt(substrFrom5(id))

\* C1: every category's and subcategory's product_count equals the length
\* of its product_ids list, in every state of a serial run of create,
\* update and delete calls.
C1_CountEqualsLength ==
    /\ \A c \in CategoryIds : CountMatchesList(categories[c])
    /\ \A s \in SubcategoryIds : CountMatchesList(subcategories[s])

\* The identifiers prod_0001, prod_0002, ... written out
ExpectedIds ==
    <<<<"p", "r", "o", "d", "_", "0", "0", "0", "1">>,
      <<"p", "r", "o", "d", "_", "0", "0", "0", "2">>,
      <<"p", "r", "o", "d", "_", "0", "0", "0", "3">>,
      <<"p", "r", "o", "d", "_", "0", "0", "0", "4">>,
      <<"p", "r", "o", "d", "_", "0", "0", "0", "5">>,
      <<"p", "r", "o", "d", "_", "0", "0", "0", "6">>>>

\* C2: from an empty products collection, serial create calls with no
\* delete call return prod_0001, prod_0002, ... in call order.
C2_SerialIdentifiers ==
    ~deleteCalled =>
        /\ Len(returned) <= Len(ExpectedIds)
        /\ \A i \in 1..Len(returned) : returned[i] = ExpectedIds[i]

C2_Witness == ~deleteCalled /\ Len(returned) >= 3 /\ Quiescent

\* C3: every create returns a numeric suffix strictly greater than every
\* suffix returned before it, so no identifier is returned twice.
C3_NoReuse ==
    \A i, j \in 1..Len(returned) : i < j => Suffix(returned[i]) < Suffix(returned[j])

\* C4: right after a successful create, the category lists the new
\* identifier exactly once and its count equals the length of its list;
\* the same for the subcategory.
C4_AfterCreate ==
    (Quiescent /\ last.kind = "create" /\ last.status = "ok") =>
        /\ Occurrences(categories[last.category_id].product_ids, last.id) = 1
        /\ CountMatchesList(categories[last.category_id])
        /\ Occurrences(subcategories[last.subcategory_id].product_ids, last.id) = 1
        /\ CountMatchesList(subcategories[last.subcategory_id])

\* C5: right after a successful delete of an existing product, no category
\* or subcategory lists its identifier, and the counts of its category and
\* of its subcategory are one less than before the call.
C5_AfterDelete ==
    (Quiescent /\ last.kind = "delete" /\ last.status = "ok" /\ last.found) =>
        /\ \A c \in CategoryIds : Occurrences(categories[c].product_ids, last.id) = 0
        /\ \A s \in SubcategoryIds : Occurrences(subcategories[s].product_ids, last.id) = 0
        /\ categories[last.category_id].product_count
               = last.pre.cats[last.category_id].product_count - 1
        /\ subcategories[last.subcategory_id].product_count
               = last.pre.subs[last.subcategory_id].product_count - 1

\* C6: between calls, every product record is listed exactly once by the
\* category and by the subcategory it names.
C6_ReferencesListed == Quiescent => \A d \in products : ListedOnce(d)

\* C7: image_count equals the length of image_urls for every product.
C7_ImageCount == \A d \in products : d.image_count = Len(d.image_urls)

\* C8: a delete call for an identifier with no product record ends at its
\* lookup, returns without error and leaves the three collections unchanged.
C8_DeleteMissingIsNoOp ==
    [][\A p \in Procs : \A productId \in TargetIds :
          (StartDelete(p, productId, FALSE) /\ getProductById(products, productId) = <<>>)
              => /\ UNCHANGED store
                 /\ Idle(p)'
                 /\ last'.kind = "delete" /\ last'.id = productId
                 /\ last'.status = "ok" /\ ~last'.found]_vars

C8_Witness ==
    /\ last.kind = "delete" /\ last.status = "ok" /\ ~last.found
    /\ products # {}

\* C9: no two product records share an identifier, whatever the
\* interleaving of concurrent create calls.
C9_UniqueIdentifiers ==
    \A d1, d2 \in products : d1._id = d2._id => d1 = d2

\* two concurrent creates were given the same identifier; the second insert threw
C9_Witness ==
    /\ last.kind = "create" /\ last.status = "error"
    /\ \E d \in products : d._id = last.id

\* C10: a successful create in a consistent store followed immediately by
\* the delete of the created identifier leaves every category's and
\* subcategory's product_ids and product_count as they were before the
\* create, and the product is absent from lookup.
C10_DeleteReversesCreate ==
    (/\ Quiescent
     /\ prev.kind = "create" /\ prev.status = "ok" /\ prev.pre.consistent
     /\ last.kind = "delete" /\ last.status = "ok" /\ last.id = prev.id)
        => /\ ParentView(categories) = prev.pre.cats
           /\ ParentView(subcategories) = prev.pre.subs
           /\ getProductById(products, last.id) = <<>>

\* the create was not the first call, so the lists it restores are not empty
C10_Witness ==
    /\ Quiescent
    /\ prev.kind = "create" /\ prev.status = "ok" /\ prev.pre.consistent
    /\ last.kind = "delete" /\ last.status = "ok" /\ last.id = prev.id /\ last.found
    /\ \E c \in CategoryIds : Len(categories[c].product_ids) > 0

\* The largest n for which the literal identifier prod_000n is the _id of a
\* record, 0 when there is none
MaxPresent(coll) ==
    LET present == {i \in 1..Len(ExpectedIds) : \E d \in coll : d._id = ExpectedIds[i]}
    IN IF present = {} THEN 0 ELSE CHOOSE m \in present : \A i \in present : i <= m

\* C11: the identifier a create holds after its scan is prod_ followed by
\* M + 1 padded to 4 digits, M the largest suffix among the records present
\* (0 when there is none); it is a function of the identifiers present.
C11_AllocatesMaxPlusOne ==
    \A p \in Procs :
        pc[p] = "c_insert" => local[p].id = ExpectedIds[MaxPresent(products) + 1]

\* a scan of a collection whose largest suffix is not its size
C11_Witness ==
    \E p \in Procs :
        /\ pc[p] = "c_insert"
        /\ products # {}
        /\ MaxPresent(products) > Cardinality(products)

\* C12: an update call leaves every category and subcategory document as it
\* is (product_ids, product_count, updated_at), also when it changes the
\* product's category_id or subcategory_id.
C12_UpdateLeavesParents ==
    [][\A p \in Procs : \A productId \in TargetIds : \A updateData \in UpdateInputs :
          UpdateProduct(p, productId, updateData, TRUE)
              => UNCHANGED <<categories, subcategories>>]_vars

\* an update has renamed the category of a product: the old category still
\* lists it and the new one does not
C12_Witness ==
    /\ Quiescent
    /\ last.kind = "update" /\ last.found /\ "category_id" \in last.fields
    /\ \E d \in products :
        /\ d._id = last.id
        /\ Occurrences(categories[d.category_id].product_ids, d._id) = 0
        /\ \E c \in CategoryIds : Occurrences(categories[c].product_ids, d._id) = 1

\* C13: an update call never changes a product's product_id or its
\* created_at, whatever partial fields the caller supplies.
C13_UpdateKeepsIdentity ==
    [][\A p \in Procs : \A productId \in TargetIds : \A updateData \in UpdateInputs :
          UpdateProduct(p, productId, updateData, TRUE)
              => \A d \in products : \E e \in products' :
                    /\ e._id = d._id
                    /\ e.product_id = d.product_id
                    /\ e.created_at = d.created_at]_vars

\* C20: after an update call on an existing product its updated_at is the
\* instant of the call, also when the caller's fields carry an updated_at of
\* their own; after an update call on an identifier with no product record
\* the products collection is what it was, with no record of that identifier.
C20_UpdateRefreshesTimestamp ==
    (Quiescent /\ last.kind = "update") =>
        IF last.found
        THEN \E d \in products : d._id = last.id /\ d.updated_at = now
        ELSE /\ getProductById(products, last.id) = <<>>
             /\ products = last.pre.products

\* an update whose fields carried the caller's own updated_at has completed
\* on an existing product
C20_Witness ==
    /\ Quiescent
    /\ last.kind = "update" /\ last.found /\ "updated_at" \in last.fields
    /\ now # CallerTimestamp
    /\ prev.kind = "update" /\ ~prev.found

Lists(parent, id) == Occurrences(parent.product_ids, id) > 0

ListedAnywhere(id) ==
    \/ \E c \in CategoryIds : Lists(categories[c], id)
    \/ \E s \in SubcategoryIds : Lists(subcategories[s], id)

\* C14: a create that has failed leaves (a) its product record with neither
\* of its parents listing it, or (b) its product record with only its
\* category listing it; and while a create's identifier has no product
\* record, no parent lists that identifier.
C14_CreatePartialOutcomes ==
    /\ (Quiescent /\ last.kind = "create" /\ last.status = "error"
            /\ getProductById(products, last.id) # <<>>)
        => /\ ~Lists(subcategories[last.subcategory_id], last.id)
           /\ last.at = "c_category" => ~Lists(categories[last.category_id], last.id)
           /\ last.at = "c_subcategory" => Lists(categories[last.category_id], last.id)
    /\ \A p \in Procs :
        (pc[p] = "c_insert" /\ getProductById(products, local[p].id) = <<>>)
            => ~ListedAnywhere(local[p].id)

FailedDelete ==
    /\ Quiescent
    /\ last.kind = "delete" /\ last.status = "error"
    /\ last.at \in {"d_category", "d_subcategory"}

\* C15 as stated: after a delete that failed between its writes the product
\* record is gone while its subcategory, and for a failure before the
\* category update also its category, lists the identifier with a
\* product_count that still counts it.
C15_DeleteLeavesListed ==
    FailedDelete =>
        /\ getProductById(products, last.id) = <<>>
        /\ Lists(subcategories[last.subcategory_id], last.id)
        /\ subcategories[last.subcategory_id].product_count >= 1
        /\ last.at = "d_category" =>
              /\ Lists(categories[last.category_id], last.id)
              /\ categories[last.category_id].product_count >= 1

PulledView(view, id) ==
    [product_ids   |-> SelectSeq(view.product_ids, LAMBDA x : x # id),
     product_count |-> view.product_count - 1]

\* C15: after a delete of an existing product that failed between its
\* writes the product record is gone and nothing is rolled back: every
\* subcategory has the product_ids and product_count it had before the call,
\* and so has every category when the failure came before the category
\* update; when it came after, the product's category has lost the
\* identifier and one unit of count and the other categories are as before.
C15_DeletePartialOutcomes ==
    FailedDelete =>
        /\ getProductById(products, last.id) = <<>>
        /\ products = deleteOne(last.pre.products, last.id)
        /\ ParentView(subcategories) = last.pre.subs
        /\ last.at = "d_category" => ParentView(categories) = last.pre.cats
        /\ last.at = "d_subcategory" =>
              ParentView(categories) =
                  [last.pre.cats EXCEPT ![last.category_id] = PulledView(@, last.id)]

\* a delete of a product listed by both parents has failed after the
\* category update: the subcategory still lists it, the category does not
C15_Witness ==
    /\ FailedDelete /\ last.at = "d_subcategory" /\ last.found
    /\ last.pre.consistent
    /\ Lists(last.pre.cats[last.category_id], last.id)
    /\ ~Lists(categories[last.category_id], last.id)
    /\ Lists(subcategories[last.subcategory_id], last.id)

\* C16: allocation is not serialized. When a create call has obtained the
\* identifier that follows the largest one present and has not inserted its
\* record yet, a second create call that starts then obtains that same
\* identifier; so two calls hold one identifier before either has inserted.
C16_AllocationRace ==
    [][\A p, q \in Procs : \A input \in CreateInputs :
          (/\ p # q
           /\ pc[p] = "c_insert"
           /\ local[p].id = ExpectedIds[MaxPresent(products) + 1]
           /\ StartCreate(q, input, FALSE))
              => local'[q].id = local[p].id]_vars

C16_Witness ==
    \E p, q \in Procs :
        /\ p # q
        /\ pc[p] = "c_insert" /\ pc[q] = "c_insert"
        /\ local[p].id = local[q].id
        /\ getProductById(products, local[p].id) = <<>>

\* The identifiers prod_9998 ... prod_10004 written out
LargeIds ==
    <<<<"p", "r", "o", "d", "_", "9", "9", "9", "8">>,
      <<"p", "r", "o", "d", "_", "9", "9", "9", "9">>,
      <<"p", "r", "o", "d", "_", "1", "0", "0", "0", "0">>,
      <<"p", "r", "o", "d", "_", "1", "0", "0", "0", "1">>,
      <<"p", "r", "o", "d", "_", "1", "0", "0", "0", "2">>,
      <<"p", "r", "o", "d", "_", "1", "0", "0", "0", "3">>,
      <<"p", "r", "o", "d", "_", "1", "0", "0", "0", "4">>>>

LargestPresent(coll) ==
    LET present == {i \in 1..Len(LargeIds) : \E d \in coll : d._id = LargeIds[i]}
    IN IF present = {} THEN 0 ELSE CHOOSE m \in present : \A i \in present : i <= m

\* C19: on a store whose largest identifier is prod_9998 or above, a create
\* is allocated the identifier that follows the largest one present with all
\* its decimal digits (prod_10000 after prod_9999, prod_10001 after
\* prod_10000), which no record with a suffix of at most 9999 carries.
C19_NoTruncation ==
    \A p \in Procs :
        (pc[p] = "c_insert" /\ LargestPresent(products) > 0) =>
            /\ local[p].id = LargeIds[LargestPresent(products) + 1]
            /\ \A d \in products : Suffix(d._id) <= 9999 => d._id # local[p].id
            /\ Suffix(local[p].id) > 9999 => Len(local[p].id) = 10

\* prod_9999 and prod_10000 are present and a create holds prod_10001
C19_Witness ==
    \E p \in Procs :
        /\ pc[p] = "c_insert"
        /\ local[p].id = LargeIds[4]
        /\ getProductById(products, LargeIds[2]) # <<>>
        /\ getProductById(products, LargeIds[3]) # <<>>
        /\ returned = <<LargeIds[3]>>

\* C17: a POST request lacking one of the five required fields or carrying
\* no image file is answered 400 in the step that receives it: no identifier
\* is allocated, no upload or createProduct is started, and products,
\* categories and subcategories are unchanged.
C17_InvalidPostRejected ==
    [][\A p \in Procs : \A req \in InvalidPostRequests :
          PostRequest(p, req, TRUE) =>
              /\ UNCHANGED <<products, categories, subcategories>>
              /\ pc'[p] = "idle" /\ local'[p] = NoLocal
              /\ last'.kind = "post" /\ last'.status = "400" /\ last'.id = <<>>]_vars

\* on a store that holds products, a request without image files and before
\* it a request without subcategory_id have been answered 400
C17_Witness ==
    /\ Quiescent
    /\ products # {}
    /\ last.kind = "post" /\ last.status = "400" /\ last.fields = {"images"}
    /\ prev.kind = "post" /\ prev.status = "400" /\ prev.fields = {"subcategory_id"}

\* C18: from the receipt of a valid POST request to the failure of its
\* upload no product record is inserted and no category or subcategory
\* document is modified, and the request ends as one error (500).
C18_UploadFailureWritesNothing ==
    [][\A p \in Procs :
          /\ (pc[p] = "idle" /\ pc'[p] = "p_upload")
                => UNCHANGED <<products, categories, subcategories>>
          /\ (pc[p] = "p_upload" /\ pc'[p] = "idle")
                => /\ UNCHANGED <<products, categories, subcategories>>
                   /\ last'.kind = "post" /\ last'.status = "500"
                   /\ products = last'.pre.products]_vars

\* on a store that holds a product, a request has failed in its upload
C18_Witness ==
    /\ Quiescent
    /\ products # {}
    /\ last.kind = "post" /\ last.status = "500" /\ last.at = "p_upload"

\* C21: a create call whose insertOne throws, for a storage error or for a
\* duplicate _id, ends there with the error: from its start to that step no
\* category or subcategory document is modified and no product is inserted.
C21_FailedInsertLeavesParents ==
    [][\A p \in Procs :
          /\ (pc[p] = "idle" /\ pc'[p] = "c_insert")
                => UNCHANGED <<products, categories, subcategories>>
          /\ (pc[p] = "c_insert" /\ pc'[p] = "idle")
                => /\ UNCHANGED <<products, categories, subcategories>>
                   /\ last'.kind = "create" /\ last'.status = "error"
                   /\ last'.at = "c_insert" /\ last'.id = local[p].id
                   /\ returned' = returned]_vars

\* two creates raced for one identifier: one returned it, the other failed
\* in its insert; before them a create had failed in its insert as well
C21_Witness ==
    /\ Quiescent
    /\ last.kind = "create" /\ last.status = "error" /\ last.at = "c_insert"
    /\ prev.kind = "create" /\ prev.status = "error" /\ prev.at = "c_insert"
    /\ getProductById(products, last.id) # <<>>
    /\ returned = <<last.id>>

RECURSIVE SumCounts(_, _)
SumCounts(coll, ids) ==
    IF ids = {} THEN 0
    ELSE LET x == CHOOSE y \in ids : TRUE
         IN coll[x].product_count + SumCounts(coll, ids \ {x})

PastCategoryUpdate == {p \in Procs : pc[p] = "c_subcategory"}

\* C22: while no delete has been called, no parent update of a create is
\* lost, however the creates interleave: every create that has updated its
\* category is listed by it, every returned identifier is listed by its
\* category and by its subcategory, each count equals the length of its
\* list, and the counts add up to the number of parent updates made.
C22_NoLostUpdate ==
    ~deleteCalled =>
        /\ \A c \in CategoryIds : CountMatchesList(categories[c])
        /\ \A s \in SubcategoryIds : CountMatchesList(subcategories[s])
        /\ SumCounts(categories, CategoryIds)
              = Len(returned) + Cardinality(PastCategoryUpdate)
        /\ SumCounts(subcategories, SubcategoryIds) = Len(returned)
        /\ \A p \in PastCategoryUpdate :
              Occurrences(categories[local[p].category_id].product_ids, local[p].id) = 1
        /\ \A i \in 1..Len(returned) :
              /\ \E c \in CategoryIds :
                    Occurrences(categories[c].product_ids, returned[i]) = 1
              /\ \E s \in SubcategoryIds :
                    Occurrences(subcategories[s].product_ids, returned[i]) = 1

\* two creates with distinct identifiers are both between their category
\* and their subcategory update, on the same category, which lists both
C22_Witness ==
    \E p, q \in Procs :
        /\ p # q /\ ~deleteCalled
        /\ pc[p] = "c_subcategory" /\ pc[q] = "c_subcategory"
        /\ local[p].id # local[q].id
        /\ local[p].category_id = local[q].category_id
        /\ local[p].subcategory_id = local[q].subcategory_id
        /\ categories[local[p].category_id].product_count = 2
        /\ Lists(categories[local[p].category_id], local[p].id)
        /\ Lists(categories[local[p].category_id], local[q].id)

\* C23: in every state of a run of create, update and delete calls from
\* empty parents, every category's and subcategory's product_count is at
\* least 0.
C23_CountsNonNegative ==
    /\ \A c \in CategoryIds : categories[c].product_count >= 0
    /\ \A s \in SubcategoryIds : subcategories[s].product_count >= 0

\* C24: of two concurrent delete calls that both found the same product,
\* the one that updates the category second, and the one that updates the
\* subcategory second, leaves the count as the first left it.
C24_SingleDecrement ==
    [][\A p, q \in Procs :
          (/\ p # q
           /\ local[p].kind = "delete" /\ local[q].kind = "delete"
           /\ local[p].product # <<>> /\ local[p].product = local[q].product)
          => /\ (pc[p] = "d_category" /\ pc'[p] = "d_subcategory"
                    /\ pc[q] = "d_subcategory")
                => categories'[local[p].category_id].product_count
                      = categories[local[p].category_id].product_count
             /\ (pc[p] = "d_subcategory" /\ pc'[p] = "idle" /\ last.kind = "delete"
                    /\ last.id = local[p].id /\ last.found /\ last.status = "ok")
                => subcategories'[local[p].subcategory_id].product_count
                      = subcategories[local[p].subcategory_id].product_count]_vars

\* C25: a POST request that has succeeded filed its upload under the
\* identifier of the product record it created.
C25_UploadIdIsRecordId ==
    (last.kind = "post" /\ last.status = "ok") => last.upload_id = last.id

\* C26: every request body the form has sent names a subcategory of the
\* category it names.
C26_SentSubcategoryBelongs ==
    \A i \in 1..Len(ui.sent) :
        OwningCategory[ui.sent[i].subcategory_id] = ui.sent[i].category_id

\* C27: whenever there is at least one page of matching products,
\* currentPage is one of the pages 1..totalPages, and so the displayed page
\* is not empty.
C27_CurrentPageInRange ==
    totalPages(ui) >= 1 =>
        /\ ui.currentPage >= 1 /\ ui.currentPage <= totalPages(ui)
        /\ Len(paginatedProducts(ui)) > 0

\* C28: once no file read is pending, previews is as long as selectedImages
\* and previews[i] is the preview of selectedImages[i].
C28_PreviewsMatchImages ==
    (\A b \in DOMAIN ui.batches : ui.batches[b].reading = {})
        => ui.previews = ui.selectedImages

====
